---------------------------- MODULE Spec2Model ----------------------------
(***************************************************************************)
(* Model of src/main.py: the resume-parser batch endpoint parse_resume,    *)
(* its format validator, and the reply post-processing of                  *)
(* parse_resume_with_llm.                                                  *)
(*                                                                         *)
(* Text is modelled as sequences of one-character strings.  Positions in   *)
(* the JSON decoder are 0-based, as in Python, so that error offsets are   *)
(* the offsets Python reports.                                             *)
(***************************************************************************)
EXTENDS Integers, Sequences, FiniteSets, TLC

(***************************************************************************)
(* Bounds of the model.                                                    *)
(***************************************************************************)
MaxFiles == 2
MaxUploads == 3
TextSpread == 1
MaxPad == 1

(***************************************************************************)
(* Program constants.                                                      *)
(***************************************************************************)
MIN_TEXT_LEN == 50
HTTP_200_OK == 200
HTTP_207_MULTI_STATUS == 207
HTTP_400_BAD_REQUEST == 400
HTTP_415_UNSUPPORTED_MEDIA_TYPE == 415
HTTP_422_UNPROCESSABLE_ENTITY == 422
HTTP_500_INTERNAL_SERVER_ERROR == 500

EXT_PDF == <<".", "p", "d", "f">>
EXT_DOCX == <<".", "d", "o", "c", "x">>
EXT_DOC == <<".", "d", "o", "c">>
allowed_extensions == {EXT_PDF, EXT_DOCX, EXT_DOC}

\* the backquote character (a string literal cannot hold it)
TICK == "BACKTICK"

FENCE_JSON == <<TICK, TICK, TICK, "j", "s", "o", "n">>
FENCE == <<TICK, TICK, TICK>>
KEY_IS_RESUME == <<"i", "s", "_", "r", "e", "s", "u", "m", "e">>
KEY_NOT_RESUME_REASON == <<"n", "o", "t", "_", "r", "e", "s", "u", "m", "e", "_", "r", "e", "a", "s", "o", "n">>
KEY_FILENAME == <<"f", "i", "l", "e", "n", "a", "m", "e">>
LIT_NULL == <<"n", "u", "l", "l">>
LIT_TRUE == <<"t", "r", "u", "e">>
LIT_FALSE == <<"f", "a", "l", "s", "e">>
REASON_UNKNOWN == <<"U", "n", "k", "n", "o", "w", "n">>

(***************************************************************************)
(* str helpers: slicing, lower(), strip(), startswith(), replace(x, "").   *)
(***************************************************************************)
Min(a, b) == IF a < b THEN a ELSE b

\* s[a:b] with Python's clamping, 0-based, b exclusive
Slice(s, a, b) == SubSeq(s, Min(a, Len(s)) + 1, Min(b, Len(s)))

\* s[i:i+1], the empty string when i is past the end
CharAt(s, i) == IF i >= 0 /\ i < Len(s) THEN s[i + 1] ELSE ""

UpperLetters == <<"A", "B", "C", "D", "E", "F", "G", "H", "I", "J", "K", "L", "M",
                  "N", "O", "P", "Q", "R", "S", "T", "U", "V", "W", "X", "Y", "Z">>
LowerLetters == <<"a", "b", "c", "d", "e", "f", "g", "h", "i", "j", "k", "l", "m",
                  "n", "o", "p", "q", "r", "s", "t", "u", "v", "w", "x", "y", "z">>

LowerChar(c) ==
    IF \E k \in 1..26 : UpperLetters[k] = c
    THEN LowerLetters[CHOOSE k \in 1..26 : UpperLetters[k] = c]
    ELSE c

Lower(s) == [k \in 1..Len(s) |-> LowerChar(s[k])]

IsSpace(c) == c \in {" ", "\n", "\t", "\r"}

RECURSIVE LStrip(_)
LStrip(s) == IF s # <<>> /\ IsSpace(s[1]) THEN LStrip(Tail(s)) ELSE s

RECURSIVE RStrip(_)
RStrip(s) == IF s # <<>> /\ IsSpace(s[Len(s)]) THEN RStrip(SubSeq(s, 1, Len(s) - 1)) ELSE s

Strip(s) == RStrip(LStrip(s))

StartsWith(s, p) == Len(s) >= Len(p) /\ SubSeq(s, 1, Len(p)) = p

EndsWith(s, p) == Len(s) >= Len(p) /\ SubSeq(s, Len(s) - Len(p) + 1, Len(s)) = p

\* s.replace(old, ""): leftmost non-overlapping occurrences are removed
RECURSIVE Remove(_, _)
Remove(s, old) ==
    IF Len(s) < Len(old) THEN s
    ELSE IF StartsWith(s, old) THEN Remove(SubSeq(s, Len(old) + 1, Len(s)), old)
    ELSE <<s[1]>> \o Remove(Tail(s), old)

(***************************************************************************)
(* pathlib: Path(filename).name and .suffix (POSIX flavour).               *)
(***************************************************************************)
RECURSIVE Split(_, _)
Split(s, sep) ==
    IF \E k \in 1..Len(s) : s[k] = sep
    THEN LET i == CHOOSE k \in 1..Len(s) : s[k] = sep /\ \A j \in 1..(k - 1) : s[j] # sep
         IN <<SubSeq(s, 1, i - 1)>> \o Split(SubSeq(s, i + 1, Len(s)), sep)
    ELSE <<s>>

IsPathPart(x) == Len(x) > 0 /\ x # <<".">>

\* the path components: empty and "." components are dropped
PathTail(fn) == SelectSeq(Split(fn, "/"), IsPathPart)

PathName(fn) ==
    LET tail == PathTail(fn)
    IN IF tail = <<>> THEN <<>> ELSE tail[Len(tail)]

\* name.rfind('.'), 0-based, -1 when absent
RFindDot(name) ==
    IF \E k \in 1..Len(name) : name[k] = "."
    THEN (CHOOSE k \in 1..Len(name) : name[k] = "." /\ \A j \in (k + 1)..Len(name) : name[j] # ".") - 1
    ELSE -1

PathSuffix(fn) ==
    LET name == PathName(fn)
        i == RFindDot(name)
    IN IF 0 < i /\ i < Len(name) - 1 THEN Slice(name, i, Len(name)) ELSE <<>>

(***************************************************************************)
(* UploadFile.filename is Optional[str]: none = TRUE models None.          *)
(***************************************************************************)
NoName == [none |-> TRUE, s |-> <<>>]
Name(s) == [none |-> FALSE, s |-> s]

\* variant of validate_file_format: the suffix is compared without lower()
validate_file_format_case_sensitive(filename) ==
    IF filename.none \/ filename.s = <<>>
    THEN FALSE
    ELSE PathSuffix(filename.s) \in allowed_extensions

validate_file_format(filename) ==
    IF filename.none \/ filename.s = <<>>
    THEN FALSE
    ELSE Lower(PathSuffix(filename.s)) \in allowed_extensions

(***************************************************************************)
(* json.loads on texts over the alphabet: letters, space, newline, the     *)
(* backquote and the punctuation { } " : , _ .  A decoded value is a       *)
(* record [t, s, m]: t the type, s the characters of a string, m the       *)
(* mapping of an object (keys to values; a later duplicate key wins).      *)
(***************************************************************************)
NullVal == [t |-> "null", s |-> <<>>, m |-> <<>>]
BoolVal(b) == [t |-> IF b THEN "true" ELSE "false", s |-> <<>>, m |-> <<>>]
StrVal(s) == [t |-> "str", s |-> s, m |-> <<>>]
ObjVal(m) == [t |-> "obj", s |-> <<>>, m |-> m]

\* outcome of a decoding step: a value and the offset after it, or a
\* JSONDecodeError (msg, pos)
Decoded(val, end) == [ok |-> TRUE, val |-> val, end |-> end, msg |-> "", pos |-> 0]
DecodeError(msg, pos) == [ok |-> FALSE, val |-> NullVal, end |-> 0, msg |-> msg, pos |-> pos]

IsJsonWs(c) == c \in {" ", "\t", "\n", "\r"}

\* WHITESPACE.match(s, idx).end()
RECURSIVE SkipWs(_, _)
SkipWs(s, idx) == IF idx < Len(s) /\ IsJsonWs(s[idx + 1]) THEN SkipWs(s, idx + 1) ELSE idx

\* dict(pairs): the last pair of a key wins
PairsToDict(pairs) ==
    [k \in {pairs[i][1] : i \in DOMAIN pairs} |->
        pairs[CHOOSE i \in DOMAIN pairs :
                 /\ pairs[i][1] = k
                 /\ \A j \in DOMAIN pairs : pairs[j][1] = k => j <= i][2]]

IsStringTerminator(c) == c \in {"\"", "\n", "\t", "\r"}

\* scanstring(s, end): end is the offset after the opening quote
scanstring(s, end) ==
    IF \E q \in end..(Len(s) - 1) : IsStringTerminator(s[q + 1])
    THEN LET q == CHOOSE q \in end..(Len(s) - 1) :
                     /\ IsStringTerminator(s[q + 1])
                     /\ \A r \in end..(q - 1) : ~IsStringTerminator(s[r + 1])
         IN IF s[q + 1] = "\""
            THEN Decoded(StrVal(Slice(s, end, q)), q + 1)
            ELSE DecodeError("Invalid control character at", q)
    ELSE DecodeError("Unterminated string starting at", end - 1)

RECURSIVE scan_once(_, _)
RECURSIVE JSONObjectPairs(_, _, _)

\* JSONObject((s, end)): end is the offset after the opening brace
JSONObject(s, end) ==
    LET c0 == CharAt(s, end)
        end1 == IF c0 # "\"" /\ IsJsonWs(c0) THEN SkipWs(s, end) ELSE end
        c1 == CharAt(s, end1)
    IN IF c1 = "}" THEN Decoded(ObjVal(<<>>), end1 + 1)
       ELSE IF c1 # "\""
            THEN DecodeError("Expecting property name enclosed in double quotes", end1)
       ELSE JSONObjectPairs(s, end1 + 1, <<>>)

\* the member loop of JSONObject: end is the offset after a key's opening quote
JSONObjectPairs(s, end, pairs) ==
    LET k == scanstring(s, end)
    IN IF ~k.ok THEN k
       ELSE
       LET e1 == IF CharAt(s, k.end) # ":" THEN SkipWs(s, k.end) ELSE k.end
       IN IF CharAt(s, e1) # ":" THEN DecodeError("Expecting ':' delimiter", e1)
          ELSE
          LET v == scan_once(s, SkipWs(s, e1 + 1))
          IN IF ~v.ok THEN v
             ELSE
             LET pairs2 == Append(pairs, <<k.val.s, v.val>>)
                 e3 == SkipWs(s, v.end)
                 c3 == CharAt(s, e3)
             IN IF c3 = "}" THEN Decoded(ObjVal(PairsToDict(pairs2)), e3 + 1)
                ELSE IF c3 # "," THEN DecodeError("Expecting ',' delimiter", e3)
                ELSE
                LET e4 == SkipWs(s, e3 + 1)
                IN IF CharAt(s, e4) # "\""
                   THEN DecodeError("Expecting property name enclosed in double quotes", e4)
                   ELSE JSONObjectPairs(s, e4 + 1, pairs2)

\* scan_once(string, idx); StopIteration(idx) surfaces as "Expecting value"
scan_once(s, idx) ==
    LET c == CharAt(s, idx)
    IN IF c = "\"" THEN scanstring(s, idx + 1)
       ELSE IF c = "{" THEN JSONObject(s, idx + 1)
       ELSE IF c = "n" /\ Slice(s, idx, idx + 4) = LIT_NULL THEN Decoded(NullVal, idx + 4)
       ELSE IF c = "t" /\ Slice(s, idx, idx + 4) = LIT_TRUE THEN Decoded(BoolVal(TRUE), idx + 4)
       ELSE IF c = "f" /\ Slice(s, idx, idx + 5) = LIT_FALSE THEN Decoded(BoolVal(FALSE), idx + 5)
       ELSE DecodeError("Expecting value", idx)

\* json.loads(s): JSONDecoder.decode
json_loads(s) ==
    LET r == scan_once(s, SkipWs(s, 0))
    IN IF ~r.ok THEN r
       ELSE LET end == SkipWs(s, r.end)
            IN IF end # Len(s) THEN DecodeError("Extra data", end) ELSE r

(***************************************************************************)
(* parse_resume_with_llm, from the reply of the completion call on.        *)
(***************************************************************************)
\* lines 377-383: strip, then remove the code-fence markers
clean_response(content) ==
    LET response_text == Strip(content)
    IN IF StartsWith(response_text, FENCE_JSON)
       THEN Strip(Remove(Remove(response_text, FENCE_JSON), FENCE))
       ELSE IF StartsWith(response_text, FENCE)
       THEN Strip(Remove(response_text, FENCE))
       ELSE response_text

\* lines 386-394: json.loads of the cleaned reply; a JSONDecodeError e becomes
\* HTTPException(500, f"Failed to parse LLM response as JSON: {str(e)}"),
\* where str(e) is the decoder's message and offset
Message(text, cause, pos, embedded) ==
    [text |-> text, cause |-> cause, pos |-> pos, embedded |-> embedded]

HTTPException(status_code, detail) ==
    [raised |-> TRUE, status_code |-> status_code, detail |-> detail, value |-> NullVal]

Returned(value) ==
    [raised |-> FALSE, status_code |-> 0, detail |-> Message("", "", 0, <<>>), value |-> value]

parse_resume_with_llm(content) ==
    LET response_text == clean_response(content)
        parsed_data == json_loads(response_text)
    IN IF parsed_data.ok
       THEN Returned(parsed_data.val)
       ELSE HTTPException(HTTP_500_INTERNAL_SERVER_ERROR,
                Message("Failed to parse LLM response as JSON: ",
                        parsed_data.msg, parsed_data.pos, <<>>))

\* lines 395-399: any other exception of the completion call
llm_processing_error(cause) ==
    HTTPException(HTTP_500_INTERNAL_SERVER_ERROR,
        Message("Error in LLM processing: ", cause, 0, <<>>))

(***************************************************************************)
(* Text extraction.  An extracted text is abstracted to the lengths of its *)
(* leading whitespace, of its core (first to last non-blank character) and *)
(* of its trailing whitespace.                                             *)
(***************************************************************************)
Text(lead, core, trail) == [lead |-> lead, core |-> core, trail |-> trail]
NoText == Text(0, 0, 0)
TextLen(t) == t.lead + t.core + t.trail
\* str.strip(): a text without a core is all whitespace
TextStrip(t) == Text(0, t.core, 0)

\* the raw texts the readers produce: blank, or with a core whose length is
\* within TextSpread of the threshold
CoreLens == {0} \cup ((MIN_TEXT_LEN - TextSpread)..(MIN_TEXT_LEN + TextSpread))
RawTexts == {Text(l, c, r) : l \in 0..MaxPad, c \in CoreLens, r \in 0..MaxPad}

\* extract_text_from_file: the route chosen from the suffix
extract_route(filename) ==
    LET file_ext == Lower(PathSuffix(filename.s))
    IN IF file_ext = EXT_PDF THEN "pdf"
       ELSE IF file_ext \in {EXT_DOCX, EXT_DOC} THEN "docx"
       ELSE "unsupported"

\* extract_text_from_pdf / extract_text_from_docx on a readable document:
\* both return text.strip()
extract_text(raw) == Returned(TextStrip(raw))

\* a reader failure (422), or the unsupported-suffix branch (415)
extract_failure(filename) ==
    LET route == extract_route(filename)
    IN IF route = "pdf"
       THEN HTTPException(HTTP_422_UNPROCESSABLE_ENTITY,
                Message("Error reading PDF: ", "reader error", 0, <<>>))
       ELSE IF route = "docx"
       THEN HTTPException(HTTP_422_UNPROCESSABLE_ENTITY,
                Message("Error reading DOCX: ", "reader error", 0, <<>>))
       ELSE HTTPException(HTTP_415_UNSUPPORTED_MEDIA_TYPE,
                Message("Unsupported file format: ", ". Allowed formats: PDF, DOCX, DOC", 0,
                        Lower(PathSuffix(filename.s))))

\* variant of insufficient_text: <= in place of <
insufficient_text_inclusive(resume_text_) ==
    TextLen(resume_text_) = 0 \/ TextLen(TextStrip(resume_text_)) <= MIN_TEXT_LEN

\* line 496: not resume_text or len(resume_text.strip()) < 50
insufficient_text(resume_text_) ==
    TextLen(resume_text_) = 0 \/ TextLen(TextStrip(resume_text_)) < MIN_TEXT_LEN

(***************************************************************************)
(* Inputs of the model: uploaded file names and replies of the model.      *)
(***************************************************************************)
NameCvDocxUpper == <<"C", "V", ".", "D", "O", "C", "X">>
NameCvTxt == <<"c", "v", ".", "t", "x", "t">>
NameDotPdf == <<".", "p", "d", "f">>
NameCvPdfSlash == <<"c", "v", ".", "p", "d", "f", "/">>

FileNames == {NoName, Name(<<>>), Name(NameCvDocxUpper), Name(NameCvTxt),
              Name(NameDotPdf), Name(NameCvPdfSlash)}

BodyResume == <<"{", "\"", "i", "s", "_", "r", "e", "s", "u", "m", "e", "\"", ":", "t", "r", "u", "e", "}">>
BodyNotResume == <<"{", "\"", "i", "s", "_", "r", "e", "s", "u", "m", "e", "\"", ":", "f", "a", "l", "s", "e", ",", "\"", "n", "o", "t", "_", "r", "e", "s", "u", "m", "e", "_", "r", "e", "a", "s", "o", "n", "\"", ":", "\"", "m", "e", "m", "o", "\"", "}">>
BodyNotResumeNoReason == <<"{", "\"", "i", "s", "_", "r", "e", "s", "u", "m", "e", "\"", ":", " ", "f", "a", "l", "s", "e", "}">>
BodyEmptyObject == <<"{", "}">>
BodyString == <<"\"", "c", "v", "\"">>
BodyNull == <<"n", "u", "l", "l">>
BodyTicksInString == <<"{", "\"", "s", "\"", ":", "\"", TICK, TICK, TICK, "\"", "}">>
BodyLabelInString == <<"{", "\"", "s", "\"", ":", "\"", TICK, TICK, TICK, "j", "s", "o", "n", "\"", "}">>
BodyProse == <<"o", "o", "p", "s">>
BodyTruncated == <<"{", "\"", "i", "s", "_", "r", "e", "s", "u", "m", "e", "\"", ":">>
BodyExtra == <<"{", "}", " ", "{", "}">>

\* a reply body wrapped in a fenced code block
Labeled(body, sep) == FENCE_JSON \o sep \o body \o sep \o FENCE
Unlabeled(body, sep) == FENCE \o sep \o body \o sep \o FENCE

\* the replies the completion call returns in the batch model
Replies == {BodyResume, Labeled(BodyResume, <<"\n">>), BodyNotResume,
            BodyNotResumeNoReason, BodyString, BodyProse}

\* parse_resume_with_llm and validate_file_format tabulated over the inputs of
\* the batch model
ReplyOutcome == [content \in Replies |-> parse_resume_with_llm(content)]
FormatOk == [filename \in FileNames |-> validate_file_format(filename)]

(***************************************************************************)
(* State of the endpoint.                                                  *)
(***************************************************************************)
VARIABLES
    uploads,         \* number of files received so far, over all requests
    files,           \* the files of the request being served
    pc,              \* position in parse_resume
    idx,             \* position of the current file in files (1-based)
    temp_file_path,  \* None, or the temp file of the current file
    fs,              \* the temp files present on the filesystem
    resume_text,     \* local of the loop body
    parsed_data,     \* local of the loop body
    results,         \* list of parsed objects
    errors,          \* list of error records
    response,        \* the JSONResponse of the request, once returned
    result_idx,      \* history: the file position behind each entry of results
    error_idx,       \* history: the file position behind each entry of errors
    started,         \* history: positions whose loop body was entered
    staged,          \* history: positions for which a temp file was created
    extracted,       \* history: positions given to extract_text_from_file
    llm_called,      \* history: positions given to parse_resume_with_llm
    handled,         \* history: positions whose finally block has run
    unlink_failed,   \* history: positions whose temp file os.unlink failed to remove
    adapter          \* state of the reply post-processing runs (AdapterSpec)

vars == <<uploads, files, pc, idx, temp_file_path, fs, resume_text, parsed_data,
          results, errors, response, result_idx, error_idx, started, staged,
          extracted, llm_called, handled, unlink_failed, adapter>>

history == <<result_idx, error_idx, started, staged, extracted, llm_called, handled,
             unlink_failed>>

None == <<>>
NoData == [t |-> "unset", s |-> <<>>, m |-> <<>>]

NoResponse ==
    [status_code |-> 0, status |-> "", message |-> "",
     total_files |-> 0, successful |-> 0, failed |-> 0,
     results |-> [shape |-> "unset", items |-> <<>>],
     errors |-> [null |-> TRUE, items |-> <<>>]]

NoAdapter == [body |-> <<>>, sep |-> <<>>, ran |-> {}, plain |-> Returned(NoData),
              labeled |-> Returned(NoData), unlabeled |-> Returned(NoData)]

\* the temp file NamedTemporaryFile creates for file i of the request: a fresh
\* name, here the rank of the file among all the files received
TempFile(i) == <<uploads - Len(files) + i>>

Init ==
    /\ uploads = 0
    /\ files = <<>>
    /\ pc = "idle"
    /\ idx = 0
    /\ temp_file_path = None
    /\ fs = {}
    /\ resume_text = NoText
    /\ parsed_data = NoData
    /\ results = <<>>
    /\ errors = <<>>
    /\ response = NoResponse
    /\ result_idx = <<>>
    /\ error_idx = <<>>
    /\ started = {}
    /\ staged = {}
    /\ extracted = {}
    /\ llm_called = {}
    /\ handled = {}
    /\ unlink_failed = {}
    /\ adapter = NoAdapter

(***************************************************************************)
(* Error records and the loop body of parse_resume.                        *)
(***************************************************************************)
ErrorRecord(file, error, status_code) ==
    [file |-> file, error |-> error, has_reason |-> FALSE, reason |-> NullVal,
     status_code |-> status_code]

ReasonedErrorRecord(file, error, reason, status_code) ==
    [file |-> file, error |-> error, has_reason |-> TRUE, reason |-> reason,
     status_code |-> status_code]

\* errors.append(record) for the current file
RecordError(record) ==
    /\ errors' = Append(errors, record)
    /\ error_idx' = Append(error_idx, idx)
    /\ UNCHANGED <<results, result_idx>>

\* variant of RecordHTTPException: the status code of the exception is dropped
\* and every raised failure is recorded as a 500
RecordHTTPExceptionAsServerError(exc) ==
    RecordError(ErrorRecord(files[idx].filename, exc.detail,
                            HTTP_500_INTERNAL_SERVER_ERROR))

\* except HTTPException as http_exc (lines 521-526)
RecordHTTPException(exc) ==
    RecordError(ErrorRecord(files[idx].filename, exc.detail, exc.status_code))

\* except Exception as e (lines 527-532)
RecordUnexpected(cause) ==
    RecordError(ErrorRecord(files[idx].filename,
                            Message("Unexpected error: ", cause, 0, <<>>),
                            HTTP_500_INTERNAL_SERVER_ERROR))

\* Python truth value of a decoded JSON value
Truthy(v) ==
    IF v.t = "true" THEN TRUE
    ELSE IF v.t = "str" THEN v.s # <<>>
    ELSE IF v.t = "obj" THEN DOMAIN v.m # {}
    ELSE FALSE

\* d.get(key, default)
dict_get(d, key, default) == IF key \in DOMAIN d.m THEN d.m[key] ELSE default

\* d[key] = v
dict_set(d, key, v) ==
    ObjVal([k \in (DOMAIN d.m) \cup {key} |-> IF k = key THEN v ELSE d.m[k]])

\* a request arrives: POST /parse-resume with n files
Receive ==
    /\ pc = "idle"
    /\ \E n \in 0..MaxFiles :
          /\ uploads + n <= MaxUploads
          /\ uploads' = uploads + n
          /\ \E names \in [1..n -> FileNames] :
                files' = [i \in 1..n |-> [filename |-> names[i]]]
    /\ pc' = "entry"
    /\ UNCHANGED <<idx, temp_file_path, fs, resume_text, parsed_data, results, errors,
                   response, history, adapter>>

\* variant of RejectEmpty: without the early return the empty batch reaches the
\* aggregation of lines 541-566
RejectEmptyFallsThrough ==
    /\ pc = "entry"
    /\ Len(files) = 0
    /\ response' = [status_code |-> HTTP_200_OK,
                    status |-> "error",
                    message |-> "All files processed successfully",
                    total_files |-> 0, successful |-> 0, failed |-> 0,
                    results |-> [shape |-> "null", items |-> <<>>],
                    errors |-> [null |-> TRUE, items |-> <<>>]]
    /\ pc' = "done"
    /\ UNCHANGED <<uploads, files, idx, temp_file_path, fs, resume_text, parsed_data,
                   results, errors, history, adapter>>

\* lines 456-469: no files provided
RejectEmpty ==
    /\ pc = "entry"
    /\ Len(files) = 0
    /\ response' = [status_code |-> HTTP_400_BAD_REQUEST,
                    status |-> "error",
                    message |-> "No files provided",
                    total_files |-> 0, successful |-> 0, failed |-> 0,
                    results |-> [shape |-> "null", items |-> <<>>],
                    errors |-> [null |-> TRUE, items |-> <<>>]]
    /\ pc' = "done"
    /\ UNCHANGED <<uploads, files, idx, temp_file_path, fs, resume_text, parsed_data,
                   results, errors, history, adapter>>

\* lines 471-473
BeginBatch ==
    /\ pc = "entry"
    /\ Len(files) > 0
    /\ results' = <<>>
    /\ errors' = <<>>
    /\ pc' = "for"
    /\ UNCHANGED <<uploads, files, idx, temp_file_path, fs, resume_text, parsed_data,
                   response, history, adapter>>

\* lines 475-476: the loop takes the next file
NextFile ==
    /\ pc = "for"
    /\ idx < Len(files)
    /\ idx' = idx + 1
    /\ temp_file_path' = None
    /\ started' = started \cup {idx + 1}
    /\ pc' = "validate"
    /\ UNCHANGED <<uploads, files, fs, resume_text, parsed_data, results, errors,
                   response, result_idx, error_idx, staged, extracted, llm_called,
                   handled, unlink_failed, adapter>>

\* lines 479-485: the validator rejects the file name
RejectFormat ==
    /\ pc = "validate"
    /\ ~FormatOk[files[idx].filename]
    /\ RecordError(ErrorRecord(files[idx].filename,
                               Message("Unsupported file format. Allowed: PDF, DOCX, DOC",
                                       "", 0, <<>>),
                               HTTP_415_UNSUPPORTED_MEDIA_TYPE))
    /\ pc' = "finally"
    /\ UNCHANGED <<uploads, files, idx, temp_file_path, fs, resume_text, parsed_data,
                   response, started, staged, extracted, llm_called, handled, unlink_failed, adapter>>

AcceptFormat ==
    /\ pc = "validate"
    /\ FormatOk[files[idx].filename]
    /\ pc' = "stage"
    /\ UNCHANGED <<uploads, files, idx, temp_file_path, fs, resume_text, parsed_data,
                   results, errors, response, history, adapter>>

\* lines 488-491: the upload is copied to a new temp file
Stage ==
    /\ pc = "stage"
    /\ fs' = fs \cup {TempFile(idx)}
    /\ staged' = staged \cup {idx}
    /\ temp_file_path' = TempFile(idx)
    /\ pc' = "extract"
    /\ UNCHANGED <<uploads, files, idx, resume_text, parsed_data, results, errors,
                   response, result_idx, error_idx, started, extracted, llm_called,
                   handled, unlink_failed, adapter>>

\* line 488: NamedTemporaryFile raises, no file is created
StageCreateFails ==
    /\ pc = "stage"
    /\ RecordUnexpected("cannot create temp file")
    /\ pc' = "finally"
    /\ UNCHANGED <<uploads, files, idx, temp_file_path, fs, resume_text, parsed_data,
                   response, started, staged, extracted, llm_called, handled, unlink_failed, adapter>>

\* lines 489-490: file.read() or temp_file.write() raises inside the with
\* block: the file exists (delete=False) and line 491 is not reached
StageCopyFails ==
    /\ pc = "stage"
    /\ fs' = fs \cup {TempFile(idx)}
    /\ staged' = staged \cup {idx}
    /\ RecordUnexpected("cannot copy upload")
    /\ pc' = "finally"
    /\ UNCHANGED <<uploads, files, idx, temp_file_path, resume_text, parsed_data,
                   response, started, extracted, llm_called, handled, unlink_failed, adapter>>

\* line 494: extraction returns a text
Extract ==
    /\ pc = "extract"
    /\ extract_route(files[idx].filename) # "unsupported"
    /\ \E raw \in RawTexts : resume_text' = extract_text(raw).value
    /\ extracted' = extracted \cup {idx}
    /\ pc' = "check"
    /\ UNCHANGED <<uploads, files, idx, temp_file_path, fs, parsed_data, results, errors,
                   response, result_idx, error_idx, started, staged, llm_called,
                   handled, unlink_failed, adapter>>

\* line 494: extraction raises an HTTPException
ExtractFails ==
    /\ pc = "extract"
    /\ RecordHTTPException(extract_failure(files[idx].filename))
    /\ extracted' = extracted \cup {idx}
    /\ pc' = "finally"
    /\ UNCHANGED <<uploads, files, idx, temp_file_path, fs, resume_text, parsed_data,
                   response, started, staged, llm_called, handled, unlink_failed, adapter>>

\* lines 496-502
RejectShortText ==
    /\ pc = "check"
    /\ insufficient_text(resume_text)
    /\ RecordError(ErrorRecord(files[idx].filename,
                               Message("Could not extract sufficient text from the file",
                                       "", 0, <<>>),
                               HTTP_422_UNPROCESSABLE_ENTITY))
    /\ pc' = "finally"
    /\ UNCHANGED <<uploads, files, idx, temp_file_path, fs, resume_text, parsed_data,
                   response, started, staged, extracted, llm_called, handled, unlink_failed, adapter>>

AcceptText ==
    /\ pc = "check"
    /\ ~insufficient_text(resume_text)
    /\ pc' = "llm"
    /\ UNCHANGED <<uploads, files, idx, temp_file_path, fs, resume_text, parsed_data,
                   results, errors, response, history, adapter>>

\* line 505: the completion call fails (lines 395-399); resume_text is dead
\* once it has been passed to parse_resume_with_llm
LlmFails ==
    /\ pc = "llm"
    /\ llm_called' = llm_called \cup {idx}
    /\ resume_text' = NoText
    /\ RecordHTTPException(llm_processing_error("transport error"))
    /\ pc' = "finally"
    /\ UNCHANGED <<uploads, files, idx, temp_file_path, fs, parsed_data,
                   response, started, staged, extracted, handled, unlink_failed, adapter>>

\* line 505: the completion call returns a reply that does not decode
LlmReplyInvalid ==
    /\ pc = "llm"
    /\ \E content \in Replies :
          /\ ReplyOutcome[content].raised
          /\ RecordHTTPException(ReplyOutcome[content])
    /\ llm_called' = llm_called \cup {idx}
    /\ resume_text' = NoText
    /\ pc' = "finally"
    /\ UNCHANGED <<uploads, files, idx, temp_file_path, fs, parsed_data,
                   response, started, staged, extracted, handled, unlink_failed, adapter>>

\* line 505: the completion call returns a reply that decodes
LlmReplyParsed ==
    /\ pc = "llm"
    /\ \E content \in Replies :
          /\ ~ReplyOutcome[content].raised
          /\ parsed_data' = ReplyOutcome[content].value
    /\ llm_called' = llm_called \cup {idx}
    /\ resume_text' = NoText
    /\ pc' = "verdict"
    /\ UNCHANGED <<uploads, files, idx, temp_file_path, fs, results, errors,
                   response, result_idx, error_idx, started, staged, extracted,
                   handled, unlink_failed, adapter>>

\* line 508: the decoded reply is not an object, .get raises AttributeError
VerdictNotObject ==
    /\ pc = "verdict"
    /\ parsed_data.t # "obj"
    /\ RecordUnexpected("object has no attribute 'get'")
    /\ pc' = "finally"
    /\ UNCHANGED <<uploads, files, idx, temp_file_path, fs, resume_text, parsed_data,
                   response, started, staged, extracted, llm_called, handled, unlink_failed, adapter>>

\* variant of VerdictNotResume: the record is appended but the loop body goes on
\* to line 518 (the continue of line 515 is missing)
VerdictNotResumeFallsThrough ==
    /\ pc = "verdict"
    /\ parsed_data.t = "obj"
    /\ ~Truthy(dict_get(parsed_data, KEY_IS_RESUME, BoolVal(TRUE)))
    /\ errors' = Append(errors,
           ReasonedErrorRecord(files[idx].filename,
               Message("Uploaded file does not appear to be a resume", "", 0, <<>>),
               dict_get(parsed_data, KEY_NOT_RESUME_REASON, StrVal(REASON_UNKNOWN)),
               HTTP_422_UNPROCESSABLE_ENTITY))
    /\ error_idx' = Append(error_idx, idx)
    /\ parsed_data' = dict_set(parsed_data, KEY_FILENAME, StrVal(files[idx].filename.s))
    /\ results' = Append(results, parsed_data')
    /\ result_idx' = Append(result_idx, idx)
    /\ pc' = "finally"
    /\ UNCHANGED <<uploads, files, idx, temp_file_path, fs, resume_text,
                   response, started, staged, extracted, llm_called, handled, unlink_failed, adapter>>

\* lines 508-515
VerdictNotResume ==
    /\ pc = "verdict"
    /\ parsed_data.t = "obj"
    /\ ~Truthy(dict_get(parsed_data, KEY_IS_RESUME, BoolVal(TRUE)))
    /\ RecordError(ReasonedErrorRecord(files[idx].filename,
                       Message("Uploaded file does not appear to be a resume", "", 0, <<>>),
                       dict_get(parsed_data, KEY_NOT_RESUME_REASON, StrVal(REASON_UNKNOWN)),
                       HTTP_422_UNPROCESSABLE_ENTITY))
    /\ pc' = "finally"
    /\ UNCHANGED <<uploads, files, idx, temp_file_path, fs, resume_text, parsed_data,
                   response, started, staged, extracted, llm_called, handled, unlink_failed, adapter>>

\* lines 517-519
VerdictResume ==
    /\ pc = "verdict"
    /\ parsed_data.t = "obj"
    /\ Truthy(dict_get(parsed_data, KEY_IS_RESUME, BoolVal(TRUE)))
    /\ parsed_data' = dict_set(parsed_data, KEY_FILENAME, StrVal(files[idx].filename.s))
    /\ results' = Append(results, parsed_data')
    /\ result_idx' = Append(result_idx, idx)
    /\ pc' = "finally"
    /\ UNCHANGED <<uploads, files, idx, temp_file_path, fs, resume_text, errors,
                   response, error_idx, started, staged, extracted, llm_called,
                   handled, unlink_failed, adapter>>

\* variant of EndOfBody: a failed file ends the loop (break)
EndOfBodyBreaksOnError ==
    /\ handled' = handled \cup {idx}
    /\ resume_text' = NoText
    /\ parsed_data' = NoData
    /\ pc' = "for"
    /\ idx' = IF idx \in {error_idx[k] : k \in DOMAIN error_idx} THEN Len(files) ELSE idx
    /\ UNCHANGED <<uploads, files, temp_file_path, results, errors, response,
                   result_idx, error_idx, started, staged, extracted, llm_called,
                   adapter>>

\* the locals of the loop body are dead once the finally block has run
EndOfBody ==
    /\ handled' = handled \cup {idx}
    /\ resume_text' = NoText
    /\ parsed_data' = NoData
    /\ pc' = "for"
    /\ UNCHANGED <<uploads, files, idx, temp_file_path, results, errors, response,
                   result_idx, error_idx, started, staged, extracted, llm_called,
                   adapter>>

\* lines 533-537: the temp file is unlinked
Cleanup ==
    /\ pc = "finally"
    /\ temp_file_path # None
    /\ temp_file_path \in fs
    /\ fs' = fs \ {temp_file_path}
    /\ unlink_failed' = unlink_failed
    /\ EndOfBody

\* lines 538-539: os.unlink raises, a warning is printed
CleanupFails ==
    /\ pc = "finally"
    /\ temp_file_path # None
    /\ temp_file_path \in fs
    /\ fs' = fs
    /\ unlink_failed' = unlink_failed \cup {idx}
    /\ EndOfBody

\* line 535: no path was recorded, nothing is unlinked
CleanupSkipped ==
    /\ pc = "finally"
    /\ ~(temp_file_path # None /\ temp_file_path \in fs)
    /\ fs' = fs
    /\ unlink_failed' = unlink_failed
    /\ EndOfBody

\* variant of aggregate_status: any failure makes the batch a failure
aggregate_status_any_error(results_, errors_) ==
    IF Len(errors_) > 0 THEN HTTP_400_BAD_REQUEST
    ELSE IF Len(errors_) > 0 /\ Len(results_) > 0 THEN HTTP_207_MULTI_STATUS
    ELSE HTTP_200_OK

\* lines 541-553
aggregate_status(results_, errors_) ==
    IF Len(results_) = 0 /\ Len(errors_) > 0 THEN HTTP_400_BAD_REQUEST
    ELSE IF Len(errors_) > 0 /\ Len(results_) > 0 THEN HTTP_207_MULTI_STATUS
    ELSE HTTP_200_OK

aggregate_message(results_, errors_) ==
    IF Len(results_) = 0 /\ Len(errors_) > 0 THEN "All files failed to process"
    ELSE IF Len(errors_) > 0 /\ Len(results_) > 0
    THEN "Partial success - some files processed successfully"
    ELSE "All files processed successfully"

\* variant of results_field: the shape follows the number of results
results_field_by_results(files_, results_) ==
    IF Len(results_) > 1 THEN [shape |-> "list", items |-> results_]
    ELSE IF Len(results_) > 0 THEN [shape |-> "object", items |-> <<results_[1]>>]
    ELSE [shape |-> "null", items |-> <<>>]

\* line 562
results_field(files_, results_) ==
    IF Len(files_) > 1 THEN [shape |-> "list", items |-> results_]
    ELSE IF Len(results_) > 0 THEN [shape |-> "object", items |-> <<results_[1]>>]
    ELSE [shape |-> "null", items |-> <<>>]

\* line 563
errors_field(errors_) ==
    IF Len(errors_) > 0 THEN [null |-> FALSE, items |-> errors_]
    ELSE [null |-> TRUE, items |-> <<>>]

\* lines 541-566: the loop is over, the response is built and returned
Respond ==
    /\ pc = "for"
    /\ idx = Len(files)
    /\ response' = [status_code |-> aggregate_status(results, errors),
                    status |-> IF Len(results) > 0 THEN "success" ELSE "error",
                    message |-> aggregate_message(results, errors),
                    total_files |-> Len(files),
                    successful |-> Len(results),
                    failed |-> Len(errors),
                    results |-> results_field(files, results),
                    errors |-> errors_field(errors)]
    /\ pc' = "done"
    /\ UNCHANGED <<uploads, files, idx, temp_file_path, fs, resume_text, parsed_data,
                   results, errors, history, adapter>>

\* the response has been sent: the request and its locals are gone, the
\* filesystem stays
Return ==
    /\ pc = "done"
    /\ pc' = "idle"
    /\ files' = <<>>
    /\ idx' = 0
    /\ temp_file_path' = None
    /\ results' = <<>>
    /\ errors' = <<>>
    /\ response' = NoResponse
    /\ result_idx' = <<>>
    /\ error_idx' = <<>>
    /\ started' = {}
    /\ staged' = {}
    /\ extracted' = {}
    /\ llm_called' = {}
    /\ handled' = {}
    /\ unlink_failed' = {}
    /\ UNCHANGED <<uploads, fs, resume_text, parsed_data, adapter>>

Next ==
    \/ Receive
    \/ RejectEmpty
    \/ BeginBatch
    \/ NextFile
    \/ RejectFormat
    \/ AcceptFormat
    \/ Stage
    \/ StageCreateFails
    \/ StageCopyFails
    \/ Extract
    \/ ExtractFails
    \/ RejectShortText
    \/ AcceptText
    \/ LlmFails
    \/ LlmReplyInvalid
    \/ LlmReplyParsed
    \/ VerdictNotObject
    \/ VerdictNotResume
    \/ VerdictResume
    \/ Cleanup
    \/ CleanupFails
    \/ CleanupSkipped
    \/ Respond
    \/ Return

Spec == Init /\ [][Next]_vars

(***************************************************************************)
(* The reply post-processing on its own: a reply body is given to          *)
(* parse_resume_with_llm unwrapped, in a labeled fence and in an unlabeled *)
(* fence.                                                                  *)
(***************************************************************************)
Bodies == {BodyResume, BodyNotResume, BodyNotResumeNoReason, BodyEmptyObject,
           BodyString, BodyNull, BodyTicksInString, BodyLabelInString,
           BodyProse, BodyTruncated, BodyExtra}

Separators == {<<>>, <<"\n">>, <<" ">>}

AdapterInit ==
    /\ uploads = 0
    /\ files = <<>>
    /\ pc = "idle"
    /\ idx = 0
    /\ temp_file_path = None
    /\ fs = {}
    /\ resume_text = NoText
    /\ parsed_data = NoData
    /\ results = <<>>
    /\ errors = <<>>
    /\ response = NoResponse
    /\ result_idx = <<>>
    /\ error_idx = <<>>
    /\ started = {}
    /\ staged = {}
    /\ extracted = {}
    /\ llm_called = {}
    /\ handled = {}
    /\ unlink_failed = {}
    /\ \E body \in Bodies, sep \in Separators :
          adapter = [NoAdapter EXCEPT !.body = body, !.sep = sep]

batch_vars == <<uploads, files, pc, idx, temp_file_path, fs, resume_text,
                parsed_data, results, errors, response, history>>

RunPlain ==
    /\ "plain" \notin adapter.ran
    /\ adapter' = [adapter EXCEPT !.ran = @ \cup {"plain"},
                                  !.plain = parse_resume_with_llm(adapter.body)]
    /\ UNCHANGED batch_vars

RunLabeled ==
    /\ "labeled" \notin adapter.ran
    /\ adapter' = [adapter EXCEPT !.ran = @ \cup {"labeled"},
                                  !.labeled = parse_resume_with_llm(
                                                  Labeled(adapter.body, adapter.sep))]
    /\ UNCHANGED batch_vars

RunUnlabeled ==
    /\ "unlabeled" \notin adapter.ran
    /\ adapter' = [adapter EXCEPT !.ran = @ \cup {"unlabeled"},
                                  !.unlabeled = parse_resume_with_llm(
                                                    Unlabeled(adapter.body, adapter.sep))]
    /\ UNCHANGED batch_vars

AdapterNext ==
    \/ RunPlain
    \/ RunLabeled
    \/ RunUnlabeled

AdapterSpec == AdapterInit /\ [][AdapterNext]_vars

(***************************************************************************)
(* Properties.                                                             *)
(***************************************************************************)
Range(f) == {f[k] : k \in DOMAIN f}

IsStrictlyIncreasing(f) == \A j, k \in DOMAIN f : j < k => f[j] < f[k]

\* the file at position i was rejected by the validator
FormatRejection(file) ==
    ErrorRecord(file,
                Message("Unsupported file format. Allowed: PDF, DOCX, DOC", "", 0, <<>>),
                HTTP_415_UNSUPPORTED_MEDIA_TYPE)

RejectedFormat(i) ==
    \E k \in DOMAIN errors : error_idx[k] = i /\ errors[k] = FormatRejection(files[i].filename)

\* C1: at response time of a batch of n >= 1 files, successful + failed =
\* total_files = n, every file has exactly one entry, in results or in errors,
\* and the entries of results follow the order of their files in the input.
C1_Accounting ==
    (pc = "done" /\ Len(files) >= 1) =>
        /\ response.total_files = Len(files)
        /\ response.successful + response.failed = response.total_files
        /\ response.successful = Len(results)
        /\ response.failed = Len(errors)
        /\ Len(result_idx) = Len(results)
        /\ Len(error_idx) = Len(errors)
        /\ \A i \in 1..Len(files) :
              Cardinality({k \in DOMAIN result_idx : result_idx[k] = i})
                + Cardinality({k \in DOMAIN error_idx : error_idx[k] = i}) = 1
        /\ IsStrictlyIncreasing(result_idx)
        /\ \A k \in DOMAIN results :
              /\ results[k].t = "obj"
              /\ KEY_FILENAME \in DOMAIN results[k].m
              /\ results[k].m[KEY_FILENAME] = StrVal(files[result_idx[k]].filename.s)
        /\ \A k \in DOMAIN errors : errors[k].file = files[error_idx[k]].filename

\* a batch answered with a success that follows a failure
C1_Witness ==
    /\ pc = "done"
    /\ Len(files) = 2
    /\ error_idx = <<1>>
    /\ result_idx = <<2>>
    /\ response.successful = 1
    /\ response.failed = 1

\* C2: the aggregate status is 200 exactly when at least one file was submitted
\* and none failed, 207 exactly when some file succeeded and some file failed,
\* 400 exactly when no file succeeded; two files, one parsed and one with a
\* rejected extension, give 207 with one entry in results and one in errors.
C2_AggregateStatus ==
    pc = "done" =>
        /\ response.status_code \in {HTTP_200_OK, HTTP_207_MULTI_STATUS, HTTP_400_BAD_REQUEST}
        /\ response.status_code = HTTP_200_OK
              <=> (Len(files) >= 1 /\ Len(error_idx) = 0)
        /\ response.status_code = HTTP_207_MULTI_STATUS
              <=> (Len(result_idx) >= 1 /\ Len(error_idx) >= 1)
        /\ response.status_code = HTTP_400_BAD_REQUEST
              <=> (Len(result_idx) = 0)
        /\ \A i, j \in 1..Len(files) :
              (Len(files) = 2 /\ i # j /\ i \in Range(result_idx) /\ RejectedFormat(j)) =>
                  /\ response.status_code = HTTP_207_MULTI_STATUS
                  /\ Len(response.results.items) = 1
                  /\ ~response.errors.null
                  /\ Len(response.errors.items) = 1

\* two files, the first with a rejected extension and the second parsed
C2_Witness ==
    /\ pc = "done"
    /\ Len(files) = 2
    /\ RejectedFormat(1)
    /\ result_idx = <<2>>
    /\ response.status_code = HTTP_207_MULTI_STATUS

\* C3: once the response is returned, no temp file created for a file of the
\* batch remains on the filesystem, whichever stage failed for the file (the
\* files whose os.unlink itself raised are left aside).
C3_NoTempFileRemains ==
    pc = "done" => \A i \in staged \ unlink_failed : TempFile(i) \notin fs

InLoopBody == pc \in {"validate", "stage", "extract", "check", "llm", "verdict", "finally"}

Recorded == Range(result_idx) \cup Range(error_idx)

C4_Order ==
    /\ started = 1..idx
    /\ handled = IF InLoopBody THEN 1..(idx - 1) ELSE 1..idx
    /\ handled \subseteq Recorded
    /\ Recorded \subseteq started
    /\ (staged \cup extracted \cup llm_called) \subseteq started
    /\ pc = "done" => handled = 1..Len(files)

InRequest == pc \notin {"idle", "done"}

PcRank ==
    [entry |-> 9, for |-> 8, validate |-> 7, stage |-> 6, extract |-> 5, check |-> 4,
     llm |-> 3, verdict |-> 2, finally |-> 1, done |-> 0, idle |-> 0]

\* the work left in the request: files not yet handled, then statements of the
\* loop body not yet passed
Remaining == (Len(files) - Cardinality(handled)) * 10 + PcRank[pc]

\* whatever was recorded for a file, its finally block can run, and at the loop
\* head either the next file can be taken or the response can be built
C4_LoopGoesOn ==
    /\ pc = "entry" => ENABLED (RejectEmpty \/ BeginBatch)
    /\ pc = "finally" => ENABLED (Cleanup \/ CleanupFails \/ CleanupSkipped)
    /\ pc = "for" => ENABLED (NextFile \/ Respond)
    /\ (pc = "for" /\ idx < Len(files)) => ENABLED NextFile

\* C4: the files are processed one after the other in input order: a file is
\* started only when every file before it has its outcome recorded and its
\* finally block run, no file is skipped, and the response is returned only
\* when every file has been processed; whatever the outcomes, the loop goes on
\* to the next file and every step of a request reduces the work left, so every
\* file of the batch is eventually processed.
C4_SequentialNoAbort ==
    /\ []C4_Order
    /\ []C4_LoopGoesOn
    /\ [][InRequest => Remaining' < Remaining]_vars

\* the second file was sent to the model after the first file had failed
C4_Witness ==
    /\ pc = "done"
    /\ Len(files) = 2
    /\ 1 \in Range(error_idx)
    /\ 2 \in llm_called
    /\ handled = {1, 2}

\* the validator has decided on the file at position i
Validated(i) == i \in started /\ ~(i = idx /\ pc = "validate")

\* the file name ends, in any letter case, in one of the three extensions
EndsInAllowed(filename) ==
    /\ ~filename.none
    /\ \E e \in allowed_extensions : EndsWith(Lower(filename.s), e)

\* the last component of a path: a trailing "/" or "/." does not count
RECURSIVE DropTrailingSeparators(_)
DropTrailingSeparators(s) ==
    IF s = <<>> THEN s
    ELSE IF s[Len(s)] = "/" THEN DropTrailingSeparators(SubSeq(s, 1, Len(s) - 1))
    ELSE IF s = <<".">> \/ EndsWith(s, <<"/", ".">>)
         THEN DropTrailingSeparators(SubSeq(s, 1, Len(s) - 1))
    ELSE s

RECURSIVE AfterLastSlash(_)
AfterLastSlash(s) ==
    IF s = <<>> \/ s[Len(s)] = "/" THEN <<>>
    ELSE Append(AfterLastSlash(SubSeq(s, 1, Len(s) - 1)), s[Len(s)])

FinalComponent(s) == AfterLastSlash(DropTrailingSeparators(s))

\* the final component is a non-empty stem followed, in any letter case, by
\* one of the three extensions
HasAllowedExtension(filename) ==
    /\ ~filename.none
    /\ \E e \in allowed_extensions :
          LET name == Lower(FinalComponent(filename.s))
          IN EndsWith(name, e) /\ Len(name) > Len(e)

\* the two readings of "has an accepted extension", tabulated over the names
EndsInAllowedOf == [filename \in FileNames |-> EndsInAllowed(filename)]
HasAllowedExtensionOf == [filename \in FileNames |-> HasAllowedExtension(filename)]

\* C5 as stated: a file whose name is empty, missing or does not end in .pdf,
\* .docx or .doc (any letter case) gets the 415 record and is neither staged,
\* extracted nor sent to the model; a name with one of the three extensions
\* is never rejected by the validator.
C5_EndsInExtension ==
    \A i \in 1..Len(files) :
        Validated(i) =>
            /\ ~EndsInAllowedOf[files[i].filename] =>
                  /\ RejectedFormat(i)
                  /\ i \notin (staged \cup extracted \cup llm_called)
            /\ HasAllowedExtensionOf[files[i].filename] => ~RejectedFormat(i)

\* C5 amended: a file whose name is empty or missing, or whose final path
\* component (a trailing "/" or "/." left aside) is not a non-empty stem
\* followed by .pdf, .docx or .doc in any letter case, gets the 415 record and
\* is neither staged, extracted nor sent to the model; a name whose final
\* component has one of the three extensions is never rejected by the
\* validator.
C5_FinalComponentExtension ==
    \A i \in 1..Len(files) :
        Validated(i) =>
            /\ ~HasAllowedExtensionOf[files[i].filename] =>
                  /\ RejectedFormat(i)
                  /\ i \notin (staged \cup extracted \cup llm_called)
            /\ HasAllowedExtensionOf[files[i].filename] => ~RejectedFormat(i)

\* a name that is only an extension was rejected, an upper-case extension was
\* accepted and staged
C5_Witness ==
    /\ pc = "done"
    /\ Len(files) = 2
    /\ files[1].filename = Name(NameDotPdf)
    /\ RejectedFormat(1)
    /\ files[2].filename = Name(NameCvDocxUpper)
    /\ 2 \in staged

SufficiencyError(file) ==
    ErrorRecord(file,
                Message("Could not extract sufficient text from the file", "", 0, <<>>),
                HTTP_422_UNPROCESSABLE_ENTITY)

TrimmedLen == TextLen(TextStrip(resume_text))

C6_Check ==
    pc = "check" =>
        IF TrimmedLen < MIN_TEXT_LEN
        THEN /\ pc' = "finally"
             /\ errors' = Append(errors, SufficiencyError(files[idx].filename))
             /\ error_idx' = Append(error_idx, idx)
             /\ results' = results
             /\ llm_called' = llm_called
        ELSE /\ pc' = "llm"
             /\ errors' = errors

C6_Call ==
    /\ (llm_called' \ llm_called) # {} =>
          /\ pc = "llm"
          /\ llm_called' \ llm_called = {idx}
          /\ TrimmedLen >= MIN_TEXT_LEN
    /\ pc = "llm" => idx \in llm_called'

\* C6: an extracted text of fewer than 50 characters after trimming (empty
\* included) gets the 422 content-sufficiency record and the file is never
\* given to parse_resume_with_llm; a text of 50 characters or more is given
\* to it.
C6_MinimumText ==
    /\ [](\A k \in DOMAIN errors :
             errors[k] = SufficiencyError(files[error_idx[k]].filename)
                => error_idx[k] \notin llm_called)
    /\ [][C6_Check /\ C6_Call]_vars

\* a text one character short of the threshold was rejected
C6_Witness ==
    /\ pc = "finally"
    /\ resume_text = Text(0, MIN_TEXT_LEN - 1, 0)
    /\ errors # <<>>
    /\ errors[Len(errors)] = SufficiencyError(files[idx].filename)
    /\ idx \notin llm_called

SameOutcome(a, b) ==
    /\ a.raised = b.raised
    /\ ~a.raised => a.value = b.value

\* C7: for every reply body, parse_resume_with_llm gives the same outcome (the
\* same decoded value, or a failure in both cases) for the body in a labeled or
\* unlabeled fence as for the body unwrapped, also when the body holds the
\* marker characters inside a JSON string.
C7_FenceEquivalence ==
    /\ {"plain", "labeled"} \subseteq adapter.ran
          => SameOutcome(adapter.labeled, adapter.plain)
    /\ {"plain", "unlabeled"} \subseteq adapter.ran
          => SameOutcome(adapter.unlabeled, adapter.plain)

\* text occurs in whole
IsInfix(text, whole) ==
    \E a \in 0..Len(whole) : Slice(whole, a, a + Len(text)) = text

\* the text interpolated into a message
MessageIncludes(message, text) == IsInfix(text, message.embedded)

IsDecodeFailure(record) == record.error.text = "Failed to parse LLM response as JSON: "

\* C8: when the reply is not valid JSON after fence-stripping, the file gets a
\* status-500 record in errors whose message includes the offending reply
\* text, and nothing is placed in results.
C8_DiagnosticIncludesReply ==
    [][(/\ pc = "llm"
        /\ Len(errors') = Len(errors) + 1
        /\ IsDecodeFailure(errors'[Len(errors')]))
          => /\ results' = results
             /\ errors'[Len(errors')].status_code = HTTP_500_INTERNAL_SERVER_ERROR
             /\ errors'[Len(errors')].file = files[idx].filename
             /\ \E content \in Replies :
                   /\ ~json_loads(clean_response(content)).ok
                   /\ errors'[Len(errors')].error = ReplyOutcome[content].detail
                   /\ MessageIncludes(errors'[Len(errors')].error, clean_response(content))
      ]_vars

ZeroFileResponse ==
    [status_code |-> HTTP_400_BAD_REQUEST, status |-> "error",
     message |-> "No files provided",
     total_files |-> 0, successful |-> 0, failed |-> 0,
     results |-> [shape |-> "null", items |-> <<>>],
     errors |-> [null |-> TRUE, items |-> <<>>]]

\* C9: a request without files is answered with HTTP 400, status "error",
\* zero counts and null results and errors; nothing is staged, extracted or
\* sent to the model and the filesystem is left as it was, whatever the
\* requests served before.
C9_ZeroFiles ==
    /\ []((pc = "done" /\ Len(files) = 0) =>
             /\ response = ZeroFileResponse
             /\ staged = {} /\ extracted = {} /\ llm_called = {}
             /\ results = <<>> /\ errors = <<>>)
    /\ [][(pc = "entry" /\ Len(files) = 0) => (pc' = "done" /\ fs' = fs)]_vars

\* an empty request answered after an earlier request left a temp file behind
C9_Witness ==
    /\ pc = "done"
    /\ Len(files) = 0
    /\ uploads > 0
    /\ fs # {}
    /\ response.status_code = HTTP_400_BAD_REQUEST

\* the parsed object of the file behind the k-th result: a decoded reply with
\* the file name set under "filename"
IsTaggedReply(object, file) ==
    \E content \in Replies :
        /\ ~ReplyOutcome[content].raised
        /\ ReplyOutcome[content].value.t = "obj"
        /\ object = dict_set(ReplyOutcome[content].value, KEY_FILENAME, StrVal(file.filename.s))

\* C10: with one file submitted, results is the parsed object itself when the
\* file succeeded and null when it failed; with two or more files it is a
\* list of exactly the parsed objects of the successful files, each tagged
\* with its file name, and the empty list when all failed.
C10_ResultsShape ==
    (pc = "done" /\ Len(files) >= 1) =>
        /\ Len(files) = 1 =>
              /\ result_idx = <<1>> =>
                    /\ response.results.shape = "object"
                    /\ Len(response.results.items) = 1
                    /\ IsTaggedReply(response.results.items[1], files[1])
              /\ result_idx = <<>> =>
                    /\ response.results.shape = "null"
                    /\ response.results.items = <<>>
        /\ Len(files) >= 2 =>
              /\ response.results.shape = "list"
              /\ Len(response.results.items) = Len(result_idx)
              /\ \A k \in DOMAIN result_idx :
                    IsTaggedReply(response.results.items[k], files[result_idx[k]])

\* two files, one parsed: a list of one object
C10_Witness ==
    /\ pc = "done"
    /\ Len(files) = 2
    /\ Len(result_idx) = 1
    /\ response.results.shape = "list"
    /\ Len(response.results.items) = 1

\* the reply held in parsed_data says the document is not a resume: line 508,
\* not parsed_data.get("is_resume", True)
JudgedNotResume ==
    /\ parsed_data.t = "obj"
    /\ ~Truthy(dict_get(parsed_data, KEY_IS_RESUME, BoolVal(TRUE)))

\* the reply held in parsed_data carries "is_resume": false
IsResumeFalse ==
    /\ parsed_data.t = "obj"
    /\ KEY_IS_RESUME \in DOMAIN parsed_data.m
    /\ parsed_data.m[KEY_IS_RESUME] = BoolVal(FALSE)

\* the status code the claim gives to a failure of the stage the loop body is
\* in: validation 415; extraction and the text check 422; the verdict 422 when
\* the document was judged not a resume; staging, the completion call, the
\* decoding of its reply and any other exception 500
StageStatusCode ==
    CASE pc = "validate" -> HTTP_415_UNSUPPORTED_MEDIA_TYPE
      [] pc = "extract" -> HTTP_422_UNPROCESSABLE_ENTITY
      [] pc = "check" -> HTTP_422_UNPROCESSABLE_ENTITY
      [] pc = "verdict" /\ JudgedNotResume -> HTTP_422_UNPROCESSABLE_ENTITY
      [] OTHER -> HTTP_500_INTERNAL_SERVER_ERROR

ErrorStatusCodes ==
    {HTTP_415_UNSUPPORTED_MEDIA_TYPE, HTTP_422_UNPROCESSABLE_ENTITY,
     HTTP_500_INTERNAL_SERVER_ERROR}

\* every record of errors names the file it was recorded for, has a message
\* and one of the three per-file status codes; a record with a reason is a 422
\* and its file is not in results
C11_Records ==
    /\ Len(errors) = Len(error_idx)
    /\ \A k \in DOMAIN errors :
          /\ error_idx[k] \in DOMAIN files
          /\ errors[k].file = files[error_idx[k]].filename
          /\ errors[k].error.text # ""
          /\ errors[k].status_code \in ErrorStatusCodes
          /\ errors[k].has_reason =>
                /\ errors[k].status_code = HTTP_422_UNPROCESSABLE_ENTITY
                /\ error_idx[k] \notin Range(result_idx)
    /\ pc = "done" /\ Len(files) > 0 =>
          /\ response.failed = Len(errors)
          /\ response.errors.items = errors

\* a step that changes errors appends one record for the current file, with
\* the status code of the stage that failed; the record of a document judged
\* not a resume carries the reason of the reply ("Unknown" when the reply has
\* none) and nothing is appended to results
C11_Append ==
    (errors' # errors /\ pc # "done" /\ pc # "entry") =>
        /\ InLoopBody
        /\ Len(errors') = Len(errors) + 1
        /\ SubSeq(errors', 1, Len(errors)) = errors
        /\ LET record == errors'[Len(errors')]
           IN /\ record.file = files[idx].filename
              /\ record.error.text # ""
              /\ record.status_code = StageStatusCode
              /\ record.has_reason <=> (pc = "verdict" /\ JudgedNotResume)
              /\ (pc = "verdict" /\ IsResumeFalse) =>
                    /\ record.status_code = HTTP_422_UNPROCESSABLE_ENTITY
                    /\ record.has_reason
                    /\ record.reason =
                          dict_get(parsed_data, KEY_NOT_RESUME_REASON, StrVal(REASON_UNKNOWN))
                    /\ results' = results
                    /\ idx \notin Range(result_idx')

\* a failure of the loop body is always recorded: a step that leaves a stage
\* for the finally block without a result appends an error record
C11_FailureRecorded ==
    (InLoopBody /\ pc # "finally" /\ pc' = "finally" /\ results' = results) =>
        Len(errors') = Len(errors) + 1

\* C11: every per-file error record carries the name of the file it was
\* recorded for, a message and the status code of the stage that failed: 415
\* for a rejected extension, 422 for an extraction failure, for too little
\* text and for a document judged not a resume (is_resume false: the reason
\* of the reply is attached and the file is not in results), 500 for a failure
\* of the completion call, a reply that does not decode and any unexpected
\* exception; no record carries another status code.
C11_ErrorClassification ==
    /\ []C11_Records
    /\ [][C11_Append /\ C11_FailureRecorded]_vars

NotResumeReason == <<"m", "e", "m", "o">>

\* two files failed at different stages: the completion call failed for the
\* first (500), the second was judged not a resume with the reason of the
\* reply attached (422)
C11_Witness ==
    /\ pc = "done"
    /\ Len(files) = 2
    /\ Len(errors) = 2
    /\ error_idx = <<1, 2>>
    /\ errors[1].status_code = HTTP_500_INTERNAL_SERVER_ERROR
    /\ errors[1].error.text = "Error in LLM processing: "
    /\ errors[2].status_code = HTTP_422_UNPROCESSABLE_ENTITY
    /\ errors[2].has_reason
    /\ errors[2].reason = StrVal(NotResumeReason)
    /\ results = <<>>
    /\ response.errors.items = errors

=============================================================================
